---- MODULE Spec2Model ----
(***************************************************************************)
(* A model of crates/turbo-tasks-fetch/src/lib.rs: the fetch task, the     *)
(* classification of a reqwest error into a FetchError, and the FetchIssue *)
(* built from it.                                                          *)
(*                                                                         *)
(* An invocation of fetch is a process with its own locals.  It suspends   *)
(* at builder.send().await and at response.bytes().await; each suspension  *)
(* ends with an answer of the transport (reqwest), which is the            *)
(* environment of the model.  The arguments are the resolved contents of   *)
(* the cells url and user_agent (lines 37-38).                             *)
(***************************************************************************)
EXTENDS Integers, Sequences, FiniteSets, TLC

VARIABLES
    pc,              \* position of each invocation of fetch
    url,             \* argument url (resolved, line 37)
    user_agent,      \* argument user_agent (resolved, line 38)
    sent,            \* requests each invocation handed to the transport
    conn,            \* per client: the response stream of its connection
    answer,          \* what the transport answered to each invocation
    response,        \* local `response` of line 46
    result,          \* what the invocation returned
    issue,           \* the FetchIssue made by to_issue from the FetchError
    description_ret  \* what FetchIssue::description returned

vars == <<pc, url, user_agent, sent, conn, answer, response, result, issue,
          description_ret>>

----------------------------------------------------------------------------
(* Bounds of the model. *)

MaxBodyLen == 2
MaxConcurrent == 2

----------------------------------------------------------------------------
(* Values. *)

None == [some |-> FALSE]
Some(v) == [some |-> TRUE, value |-> v]

Urls == {"https://x.test", "http://a/b"}
UserAgents == {"turbo", "curl/8"}
Bytes == {0, 255}

RECURSIVE SeqsUpTo(_, _)
SeqsUpTo(S, n) ==
    IF n = 0 THEN {<<>>}
    ELSE LET shorter == SeqsUpTo(S, n - 1)
         IN  shorter \cup {Append(s, e) : s \in {t \in shorter : Len(t) = n - 1}, e \in S}

Bodies == SeqsUpTo(Bytes, MaxBodyLen)

\* Status codes a server can answer with: each class, and the edges of each.
StatusCodes == {101, 200, 204, 299, 300, 304, 399, 400, 404, 499, 500, 503, 599, 600}

ErrorTexts == {"error sending request", "operation timed out"}

\* reqwest::Error as fetch sees it: the three accessors from_reqwest_error
\* reads, and its Display text.
ReqwestError(c, t, s, text) ==
    [is_connect |-> c, is_timeout |-> t, status |-> s, text |-> text]

\* Errors of send(): raised before a status line was received, so they carry
\* no status; a timed-out connection attempt is flagged both ways.
SendErrors ==
    {ReqwestError(c, t, None, text) : c \in BOOLEAN, t \in BOOLEAN, text \in ErrorTexts}

\* Every error object the accessors allow.
AnyErrors ==
    {ReqwestError(c, t, s, text) :
        c \in BOOLEAN, t \in BOOLEAN,
        s \in {None} \cup {Some(code) : code \in StatusCodes},
        text \in ErrorTexts}

TransportErr(e) == [ok |-> FALSE, error |-> e]
TransportOk(code, body) == [ok |-> TRUE, status |-> code, body |-> body]

\* Answers of the transport to send().
Answers ==
    {TransportErr(e) : e \in SendErrors}
        \cup {TransportOk(code, b) : code \in StatusCodes, b \in Bodies}

ErrorAnswers == {TransportErr(e) : e \in AnyErrors}

\* The answers of the concurrent runs: one of each outcome, no two alike.
ConcurrentAnswers ==
    { TransportErr(ReqwestError(TRUE, FALSE, None, "error sending request")),
      TransportOk(404, <<255>>),
      TransportOk(200, <<0>>),
      TransportOk(204, <<0, 255>>) }

Severities == {"Error", "Warning"}
Contexts == {"/root/app.js", "/root/lib.css"}

----------------------------------------------------------------------------
(* Decimal formatting of a u16, as `{}` formats it. *)

DigitChar(d) ==
    CASE d = 0 -> "0" [] d = 1 -> "1" [] d = 2 -> "2" [] d = 3 -> "3"
      [] d = 4 -> "4" [] d = 5 -> "5" [] d = 6 -> "6" [] d = 7 -> "7"
      [] d = 8 -> "8" [] d = 9 -> "9"

RECURSIVE Display(_)
Display(n) ==
    IF n < 10 THEN DigitChar(n)
    ELSE Display(n \div 10) \o DigitChar(n % 10)

----------------------------------------------------------------------------
(* The request fetch builds (lines 39-44). *)

HeaderAlways(builder, ua) ==
    [builder EXCEPT !.headers =
        Append(@, <<"User-Agent", IF ua.some THEN ua.value ELSE "">>)]

\* if let Some(user_agent) = &user_agent { builder.header("User-Agent", ..) }
WithUserAgent(builder, ua) ==
    IF ua.some
    THEN [builder EXCEPT !.headers = Append(@, <<"User-Agent", ua.value>>)]
    ELSE builder

\* client.get(&url)
Get(u) == [method |-> "GET", url |-> u, headers |-> <<>>]

BuildRequest(u, ua) == WithUserAgent(Get(u), ua)

SendTwice(log, req) == Append(Append(log, req), req)

\* builder.send(): the one call that hands a request to the transport.
Send(log, req) == Append(log, req)

SharedClient(i) == 1

\* let client = Client::new(): a client, and so a connection, of its own.
ClientOf(i) == i

----------------------------------------------------------------------------
(* reqwest's Response::error_for_status, applied by and_then on line 46. *)

is_client_error(code) == 400 <= code /\ code < 500
is_server_error(code) == 500 <= code /\ code < 600

StatusErrorText(code) ==
    "HTTP status "
        \o (IF is_client_error(code) THEN "client" ELSE "server")
        \o " error (" \o Display(code) \o ")"

error_for_status(a) ==
    IF is_client_error(a.status) \/ is_server_error(a.status)
    THEN TransportErr(ReqwestError(FALSE, FALSE, Some(a.status), StatusErrorText(a.status)))
    ELSE a

\* builder.send().await.and_then(|r| r.error_for_status())
SendAndThen(a) == IF a.ok THEN error_for_status(a) ELSE a

----------------------------------------------------------------------------
(* FetchError::from_reqwest_error (lines 78-95). *)

Connect == [tag |-> "Connect"]
Timeout == [tag |-> "Timeout"]
Status(code) == [tag |-> "Status", code |-> code]
Other == [tag |-> "Other"]

KindTimeoutFirst(error) ==
    IF error.is_timeout THEN Timeout
    ELSE IF error.is_connect THEN Connect
    ELSE IF error.status.some THEN Status(error.status.value)
    ELSE Other

KindStatusFirst(error) ==
    IF error.is_connect THEN Connect
    ELSE IF error.status.some THEN Status(error.status.value)
    ELSE IF error.is_timeout THEN Timeout
    ELSE Other

KindNoStatus(error) ==
    IF error.is_connect THEN Connect
    ELSE IF error.is_timeout THEN Timeout
    ELSE Other

Kind(error) ==
    IF error.is_connect THEN Connect
    ELSE IF error.is_timeout THEN Timeout
    ELSE IF error.status.some THEN Status(error.status.value)
    ELSE Other

from_reqwest_error(error, u) ==
    [detail |-> error.text, url |-> u, kind |-> Kind(error)]

----------------------------------------------------------------------------
(* The two arms of the match of fetch (lines 47-58) and the `?` of line 50. *)

Pending ==
    [tag |-> "Pending", returned |-> FALSE, response |-> None, error |-> None]

to_vec(bytes) == [k \in 1..Len(bytes) |-> bytes[k]]

HttpResponseNoBody(code, bytes) == [status |-> code, body |-> <<>>]

\* HttpResponse { status, body: Vc::cell(HttpResponseBody(body)) }
HttpResponse(code, bytes) == [status |-> code, body |-> to_vec(bytes)]

ReturnErrWithResponse(fe) ==
    [tag |-> "Err", returned |-> TRUE,
     response |-> Some(HttpResponse(0, <<>>)), error |-> Some(fe)]

\* Ok(Vc::cell(Ok(HttpResponse {..})))
ReturnOk(r) ==
    [tag |-> "Ok", returned |-> TRUE, response |-> Some(r), error |-> None]

\* Ok(Vc::cell(Err(FetchError::from_reqwest_error(&err, &url).into())))
ReturnErr(fe) ==
    [tag |-> "Err", returned |-> TRUE, response |-> None, error |-> Some(fe)]

FoldBodyError(u) ==
    ReturnErr(from_reqwest_error(
        ReqwestError(FALSE, FALSE, None, "error decoding response body"), u))

\* response.bytes().await? on a failed read: the error leaves fetch as the
\* Err of its anyhow::Result; no FetchResult is made.
Propagate(u) ==
    [tag |-> "Failure", returned |-> FALSE, response |-> None, error |-> None]

----------------------------------------------------------------------------
(* FetchError::to_issue and FetchIssue::description (lines 97-168). *)

to_issue(this, severity, issue_context) ==
    [issue_context |-> issue_context, severity |-> severity,
     url |-> this.url, kind |-> this.kind, detail |-> this.detail]

DescriptionTextNoPeriod(kind, u) ==
    CASE kind.tag = "Connect" ->
            "There was an issue establishing a connection while requesting " \o u
      [] kind.tag = "Status" ->
            "Received response with status " \o Display(kind.code)
                \o " when requesting " \o u
      [] kind.tag = "Timeout" -> "Connection timed out when requesting " \o u
      [] kind.tag = "Other" -> "There was an issue requesting " \o u

DescriptionText(kind, u) ==
    CASE kind.tag = "Connect" ->
            "There was an issue establishing a connection while requesting "
                \o u \o "."
      [] kind.tag = "Status" ->
            "Received response with status " \o Display(kind.code)
                \o " when requesting " \o u
      [] kind.tag = "Timeout" -> "Connection timed out when requesting " \o u
      [] kind.tag = "Other" -> "There was an issue requesting " \o u

\* Ok(Vc::cell(Some(StyledString::Text(..).into())))
description(self) == Some([text |-> DescriptionText(self.kind, self.url)])

NotCalled == [called |-> FALSE]
Called(v) == [called |-> TRUE, value |-> v]

----------------------------------------------------------------------------
(* Initial states: the invocations of S, each about to run with arguments  *)
(* of its own.                                                             *)

InitFor(S, UAs) ==
    /\ pc = [i \in S |-> "init"]
    /\ url \in [S -> Urls]
    /\ user_agent \in [S -> {None} \cup {Some(ua) : ua \in UAs}]
    /\ sent = [i \in S |-> <<>>]
    /\ conn = [c \in S |-> None]
    /\ answer = [i \in S |-> [send |-> None, body |-> "none"]]
    /\ response = [i \in S |-> None]
    /\ result = [i \in S |-> Pending]
    /\ issue = [i \in S |-> None]
    /\ description_ret = [i \in S |-> NotCalled]

Init == InitFor({1}, UserAgents)

\* Lines 37-46, up to the first suspension: build the request and send it.
Start(i) ==
    /\ pc[i] = "init"
    /\ sent' = [sent EXCEPT ![i] = Send(@, BuildRequest(url[i], user_agent[i]))]
    /\ pc' = [pc EXCEPT ![i] = "sending"]
    /\ UNCHANGED <<url, user_agent, conn, answer, response, result, issue,
                   description_ret>>

\* send() returns a from A; lines 46-50 up to the second suspension, or
\* line 57 and the return.
SendReturns(i, A) ==
    /\ pc[i] = "sending"
    /\ \E a \in A :
        LET r == SendAndThen(a) IN
        /\ answer' = [answer EXCEPT ![i].send = Some(a)]
        /\ conn' = IF a.ok
                   THEN [conn EXCEPT ![ClientOf(i)] =
                            Some([status |-> a.status, body |-> a.body])]
                   ELSE conn
        /\ IF r.ok
           THEN /\ response' = [response EXCEPT ![i] =
                        Some([status |-> r.status, client |-> ClientOf(i)])]
                /\ pc' = [pc EXCEPT ![i] = "reading"]
                /\ UNCHANGED result
           ELSE /\ response' = [response EXCEPT ![i] = Some(r)]
                /\ result' = [result EXCEPT ![i] =
                        ReturnErr(from_reqwest_error(r.error, url[i]))]
                /\ pc' = [pc EXCEPT ![i] = "returned"]
    /\ UNCHANGED <<url, user_agent, sent, issue, description_ret>>

\* bytes() returns: the whole body of the connection (lines 50-55), or the
\* error of a transport that failed mid-read (the `?` of line 50).
BodyReturns(i) ==
    /\ pc[i] = "reading"
    /\ \E complete \in BOOLEAN :
        IF complete
        THEN /\ answer' = [answer EXCEPT ![i].body = "complete"]
             /\ result' = [result EXCEPT ![i] =
                    ReturnOk(HttpResponse(response[i].value.status,
                                          conn[response[i].value.client].value.body))]
             /\ pc' = [pc EXCEPT ![i] = "returned"]
        ELSE /\ answer' = [answer EXCEPT ![i].body = "failed"]
             /\ result' = [result EXCEPT ![i] = Propagate(url[i])]
             /\ pc' = [pc EXCEPT ![i] = "failed"]
    /\ UNCHANGED <<url, user_agent, sent, conn, response, issue, description_ret>>

\* A caller turns the FetchError it got into a FetchIssue.
ToIssue(i) ==
    /\ pc[i] = "returned"
    /\ result[i].error.some
    /\ ~issue[i].some
    /\ \E severity \in Severities, issue_context \in Contexts :
        issue' = [issue EXCEPT ![i] =
                    Some(to_issue(result[i].error.value, severity, issue_context))]
    /\ UNCHANGED <<pc, url, user_agent, sent, conn, answer, response, result,
                   description_ret>>

\* The reporter asks the FetchIssue for its description.
Description(i) ==
    /\ issue[i].some
    /\ ~description_ret[i].called
    /\ description_ret' = [description_ret EXCEPT ![i] = Called(description(issue[i].value))]
    /\ UNCHANGED <<pc, url, user_agent, sent, conn, answer, response, result, issue>>

Next ==
    \/ \E i \in DOMAIN pc : Start(i)
    \/ \E i \in DOMAIN pc : SendReturns(i, Answers)
    \/ \E i \in DOMAIN pc : BodyReturns(i)
    \/ \E i \in DOMAIN pc : ToIssue(i)
    \/ \E i \in DOMAIN pc : Description(i)

Spec == Init /\ [][Next]_vars

\* One invocation, against a transport that may return any error object.
NextAnyError ==
    \/ \E i \in DOMAIN pc : Start(i)
    \/ \E i \in DOMAIN pc : SendReturns(i, ErrorAnswers)

SpecAnyError == Init /\ [][NextAnyError]_vars

\* Several invocations, their suspension points interleaved in any order.
InitConcurrent == InitFor(1..MaxConcurrent, {"turbo"})

NextConcurrent ==
    \/ \E i \in DOMAIN pc : Start(i)
    \/ \E i \in DOMAIN pc : SendReturns(i, ConcurrentAnswers)
    \/ \E i \in DOMAIN pc : BodyReturns(i)

SpecConcurrent == InitConcurrent /\ [][NextConcurrent]_vars

----------------------------------------------------------------------------
(* The properties. *)

Finished(i) == pc[i] \in {"returned", "failed"}

\* The transport answered invocation i's send() with a response of status in S.
AnsweredStatus(i, S) ==
    /\ answer[i].send.some
    /\ answer[i].send.value.ok
    /\ answer[i].send.value.status \in S

\* The transport answered invocation i's send() with an error.
AnsweredError(i) == answer[i].send.some /\ ~answer[i].send.value.ok

IsErr(i, kind) ==
    /\ result[i].tag = "Err"
    /\ result[i].returned
    /\ result[i].error.some
    /\ ~result[i].response.some
    /\ result[i].error.value.kind = kind

\* C1 as claimed: whenever fetch returns after a response of status >= 300
\* (3xx included), it returns Err with a FetchError of kind Status(code).
C1_Status300IsError ==
    \A i \in DOMAIN pc :
        (pc[i] = "returned" /\ AnsweredStatus(i, 300..999))
            => IsErr(i, [tag |-> "Status", code |-> answer[i].send.value.status])

\* C1 amended: a response of status in [400,600) makes fetch return Err with
\* a FetchError of kind Status(code), code the status of the response.
C1_ErrorStatusIsError ==
    \A i \in DOMAIN pc :
        AnsweredStatus(i, 400..599)
            => /\ pc[i] = "returned"
               /\ IsErr(i, [tag |-> "Status", code |-> answer[i].send.value.status])

C1_Witness ==
    \E i \in DOMAIN pc :
        /\ AnsweredStatus(i, 400..599)
        /\ result[i].tag = "Err"

\* C2: a response of status in [200,300) whose body read completes makes
\* fetch return Ok with that status and exactly the bytes the server sent;
\* an empty body gives a body of length zero.
C2_SuccessIsOk ==
    \A i \in DOMAIN pc :
        (AnsweredStatus(i, 200..299) /\ answer[i].body = "complete")
            => /\ pc[i] = "returned"
               /\ result[i].tag = "Ok"
               /\ result[i].returned
               /\ ~result[i].error.some
               /\ result[i].response.some
               /\ result[i].response.value.status = answer[i].send.value.status
               /\ result[i].response.value.body = answer[i].send.value.body
               /\ Len(result[i].response.value.body) = Len(answer[i].send.value.body)

C2_Witness ==
    \E i \in DOMAIN pc :
        /\ AnsweredStatus(i, 200..299)
        /\ answer[i].body = "complete"
        /\ Len(answer[i].send.value.body) = MaxBodyLen
        /\ result[i].tag = "Ok"

\* C3 as claimed: every invocation that finishes, a failed body read
\* included, has produced exactly one of a response and a FetchError.
C3_ExactlyOneAlways ==
    \A i \in DOMAIN pc :
        Finished(i) => (result[i].response.some # result[i].error.some)

\* C3 amended: no invocation ever holds both a response and a FetchError; one
\* that returns a FetchResult holds exactly one; one whose body read failed
\* finishes without a FetchResult and holds neither.
C3_ExactlyOneWhenReturned ==
    \A i \in DOMAIN pc :
        /\ ~(result[i].response.some /\ result[i].error.some)
        /\ pc[i] = "returned"
            => /\ result[i].returned
               /\ result[i].response.some # result[i].error.some
        /\ pc[i] = "failed"
            => /\ answer[i].body = "failed"
               /\ ~result[i].returned
               /\ ~result[i].response.some
               /\ ~result[i].error.some
        /\ ~Finished(i) => result[i] = Pending

C3_Witness ==
    \E i \in DOMAIN pc :
        /\ pc[i] = "failed"
        /\ ~result[i].response.some
        /\ ~result[i].error.some

\* C4: when send() yields a non-error status and the transport then fails
\* during the body read, fetch returns no FetchResult, neither Ok nor Err:
\* the failure leaves fetch itself, and no FetchError is made.
C4_BodyFailurePropagates ==
    \A i \in DOMAIN pc :
        ((\E code \in StatusCodes :
             /\ ~(400 <= code /\ code <= 599)
             /\ AnsweredStatus(i, {code}))
         /\ answer[i].body = "failed")
            => /\ pc[i] = "failed"
               /\ result[i].tag = "Failure"
               /\ ~result[i].returned
               /\ ~result[i].error.some
               /\ ~result[i].response.some

C4_Witness ==
    \E i \in DOMAIN pc :
        /\ AnsweredStatus(i, 200..299)
        /\ answer[i].body = "failed"
        /\ pc[i] = "failed"

\* C5: the kind is Connect if is_connect; else Timeout if is_timeout; else
\* Status(code) if a status is carried; else Other -- for every combination
\* of the three.
C5_PriorityChain ==
    \A i \in DOMAIN pc :
        AnsweredError(i) =>
            LET e == answer[i].send.value.error
                k == result[i].error.value.kind
            IN  /\ result[i].tag = "Err"
                /\ result[i].error.some
                /\ e.is_connect => k = [tag |-> "Connect"]
                /\ (~e.is_connect /\ e.is_timeout) => k = [tag |-> "Timeout"]
                /\ (~e.is_connect /\ ~e.is_timeout /\ e.status.some)
                        => k = [tag |-> "Status", code |-> e.status.value]
                /\ (~e.is_connect /\ ~e.is_timeout /\ ~e.status.some)
                        => k = [tag |-> "Other"]

C5_Witness ==
    \E i \in DOMAIN pc :
        /\ AnsweredError(i)
        /\ answer[i].send.value.error.is_connect
        /\ answer[i].send.value.error.is_timeout
        /\ answer[i].send.value.error.status.some
        /\ result[i].error.some
        /\ result[i].error.value.kind.tag = "Connect"

\* C6 as claimed: every error flagged as a timeout has kind Timeout, whatever
\* its other flags.
C6_TimeoutAlways ==
    \A i \in DOMAIN pc :
        (AnsweredError(i) /\ answer[i].send.value.error.is_timeout)
            => /\ result[i].error.some
               /\ result[i].error.value.kind = [tag |-> "Timeout"]

\* C6 amended: every error flagged as a timeout and not as a connection
\* failure has kind Timeout, a status code carried or not.
C6_TimeoutUnlessConnect ==
    \A i \in DOMAIN pc :
        (/\ AnsweredError(i)
         /\ answer[i].send.value.error.is_timeout
         /\ ~answer[i].send.value.error.is_connect)
            => /\ result[i].error.some
               /\ result[i].error.value.kind = [tag |-> "Timeout"]

C6_Witness ==
    \E i \in DOMAIN pc :
        /\ AnsweredError(i)
        /\ answer[i].send.value.error.is_timeout
        /\ ~answer[i].send.value.error.is_connect
        /\ answer[i].send.value.error.status.some
        /\ result[i].error.some
        /\ result[i].error.value.kind.tag = "Timeout"

\* The four templates, written out for every kind and url of the model.
ExpectedDescription(kind, u) ==
    CASE kind = [tag |-> "Connect"] /\ u = "https://x.test" ->
            "There was an issue establishing a connection while requesting https://x.test."
      [] kind = [tag |-> "Timeout"] /\ u = "https://x.test" ->
            "Connection timed out when requesting https://x.test"
      [] kind = [tag |-> "Other"] /\ u = "https://x.test" ->
            "There was an issue requesting https://x.test"
      [] kind = [tag |-> "Status", code |-> 400] /\ u = "https://x.test" ->
            "Received response with status 400 when requesting https://x.test"
      [] kind = [tag |-> "Status", code |-> 404] /\ u = "https://x.test" ->
            "Received response with status 404 when requesting https://x.test"
      [] kind = [tag |-> "Status", code |-> 499] /\ u = "https://x.test" ->
            "Received response with status 499 when requesting https://x.test"
      [] kind = [tag |-> "Status", code |-> 500] /\ u = "https://x.test" ->
            "Received response with status 500 when requesting https://x.test"
      [] kind = [tag |-> "Status", code |-> 503] /\ u = "https://x.test" ->
            "Received response with status 503 when requesting https://x.test"
      [] kind = [tag |-> "Status", code |-> 599] /\ u = "https://x.test" ->
            "Received response with status 599 when requesting https://x.test"
      [] kind = [tag |-> "Connect"] /\ u = "http://a/b" ->
            "There was an issue establishing a connection while requesting http://a/b."
      [] kind = [tag |-> "Timeout"] /\ u = "http://a/b" ->
            "Connection timed out when requesting http://a/b"
      [] kind = [tag |-> "Other"] /\ u = "http://a/b" ->
            "There was an issue requesting http://a/b"
      [] kind = [tag |-> "Status", code |-> 400] /\ u = "http://a/b" ->
            "Received response with status 400 when requesting http://a/b"
      [] kind = [tag |-> "Status", code |-> 404] /\ u = "http://a/b" ->
            "Received response with status 404 when requesting http://a/b"
      [] kind = [tag |-> "Status", code |-> 499] /\ u = "http://a/b" ->
            "Received response with status 499 when requesting http://a/b"
      [] kind = [tag |-> "Status", code |-> 500] /\ u = "http://a/b" ->
            "Received response with status 500 when requesting http://a/b"
      [] kind = [tag |-> "Status", code |-> 503] /\ u = "http://a/b" ->
            "Received response with status 503 when requesting http://a/b"
      [] kind = [tag |-> "Status", code |-> 599] /\ u = "http://a/b" ->
            "Received response with status 599 when requesting http://a/b"
      [] OTHER -> "(no template)"

\* C7: the description of a FetchIssue is there (never None) and is the
\* template of its kind with the url (and the status code) filled in, the
\* period after the Connect sentence included and no period after the
\* others, whatever the severity, the context and the detail.
C7_DescriptionTemplates ==
    \A i \in DOMAIN pc :
        description_ret[i].called
            => /\ description_ret[i].value.some
               /\ description_ret[i].value.value.text
                    = ExpectedDescription(issue[i].value.kind, issue[i].value.url)
               /\ issue[i].value.url = url[i]
               /\ issue[i].value.kind = result[i].error.value.kind

C7_Witness ==
    \E i \in DOMAIN pc :
        /\ description_ret[i].called
        /\ issue[i].value.kind.tag = "Connect"
        /\ issue[i].value.severity = "Warning"
        /\ description_ret[i].value.value.text
            = "There was an issue establishing a connection while requesting https://x.test."

HeadersOf(i) == sent[i][1].headers

\* C8: the request carries a User-Agent header iff user_agent is present,
\* its value the string given; fetch adds no other header.
C8_UserAgentHeader ==
    \A i \in DOMAIN pc :
        pc[i] # "init"
            => /\ Len(sent[i]) >= 1
               /\ (\E k \in 1..Len(HeadersOf(i)) : HeadersOf(i)[k][1] = "User-Agent")
                    <=> user_agent[i].some
               /\ \A k \in 1..Len(HeadersOf(i)) :
                    /\ user_agent[i].some
                    /\ HeadersOf(i)[k] = <<"User-Agent", user_agent[i].value>>
               /\ Len(HeadersOf(i)) <= 1

C8_Witness ==
    \E i \in DOMAIN pc :
        /\ pc[i] # "init"
        /\ user_agent[i].some
        /\ HeadersOf(i) = << <<"User-Agent", "curl/8">> >>

\* C9: an invocation hands exactly one request, a GET of its url, to the
\* transport, whatever its outcome: none before it starts, one from then on
\* and never a second; and the body is read only after send() returned a
\* status that is not an error status.
C9_OneGetNoRetry ==
    \A i \in DOMAIN pc :
        /\ Len(sent[i]) = (IF pc[i] = "init" THEN 0 ELSE 1)
        /\ \A k \in 1..Len(sent[i]) :
            sent[i][k].method = "GET" /\ sent[i][k].url = url[i]
        /\ (pc[i] = "reading" \/ answer[i].body # "none")
            => \E code \in StatusCodes :
                /\ ~(400 <= code /\ code <= 599)
                /\ AnsweredStatus(i, {code})

C9_Witness ==
    \E i \in DOMAIN pc :
        /\ pc[i] = "returned"
        /\ result[i].tag = "Err"
        /\ Len(sent[i]) = 1

\* What an invocation with these arguments produces when it runs alone and
\* the transport answers a to send() and then completes the body read or not.
FetchAlone(u, ua, a, body) ==
    LET r == SendAndThen(a) IN
    IF ~r.ok THEN ReturnErr(from_reqwest_error(r.error, u))
    ELSE IF body = "complete" THEN ReturnOk(HttpResponse(r.status, a.body))
    ELSE Propagate(u)

\* C10: however the suspension points of concurrent invocations interleave,
\* the outcome of each is the one it produces alone from its own url and
\* user_agent and the transport's answer to its own request.
C10_NoInterference ==
    \A i \in DOMAIN pc :
        /\ pc[i] # "init" => sent[i] = <<BuildRequest(url[i], user_agent[i])>>
        /\ Finished(i)
            => result[i] = FetchAlone(url[i], user_agent[i],
                                      answer[i].send.value, answer[i].body)
        /\ ~Finished(i) => result[i] = Pending

C10_Witness ==
    \E i, j \in DOMAIN pc :
        /\ i # j
        /\ pc[i] = "reading"
        /\ pc[j] = "returned"
        /\ result[j].tag = "Ok"
        /\ url[i] # url[j]
        /\ answer[i].send.value.body # answer[j].send.value.body
        /\ answer[i].send.value.status # answer[j].send.value.status

====
